---- MODULE Spec2Model ----
(***************************************************************************)
(* mcpkit (bin/mcp-kit.js): the registry cache, the installation ledger    *)
(* kept inside it, and the read-modify-write of the agents' MCP config     *)
(* files, as a state machine with one action per HTTP handler / timer.     *)
(*                                                                         *)
(* JavaScript strings that the code takes apart (command lines, env        *)
(* values) are sequences of one-character strings.  JavaScript values      *)
(* that may be undefined/null are tagged records [t |-> ...].              *)
(***************************************************************************)
EXTENDS Integers, Sequences, FiniteSets, TLC

\* Highest value of the wall clock (Date.now / new Date()) the model follows.
MaxClock == 2

----------------------------------------------------------------------------
\* JavaScript values

Undef == [t |-> "undefined"]
JNull == [t |-> "null"]
Str(s) == [t |-> "string", v |-> s]
Arr(s) == [t |-> "array", v |-> s]
Obj(f) == [t |-> "object", v |-> f]

EmptyMap == [k \in {} |-> Undef]

\* obj[key] = value, on a mapping
Put(f, k, x) == [j \in (DOMAIN f) \cup {k} |-> IF j = k THEN x ELSE f[j]]

\* delete obj[key]
Del(f, k) == [j \in (DOMAIN f) \ {k} |-> f[j]]

\* Array.prototype.includes
Includes(s, x) == \E i \in 1..Len(s) : s[i] = x

\* Array.prototype.filter(id => id !== x)
RECURSIVE FilterOut(_, _)
FilterOut(s, x) ==
    IF s = <<>> THEN <<>>
    ELSE IF Head(s) = x THEN FilterOut(Tail(s), x)
    ELSE <<Head(s)>> \o FilterOut(Tail(s), x)

\* String.prototype.split(' '): cuts at every single space, so a run of
\* spaces, a leading or a trailing space gives empty tokens; "" gives [""].
RECURSIVE Split(_)
Split(s) ==
    IF \A i \in 1..Len(s) : s[i] # " " THEN <<s>>
    ELSE LET i == CHOOSE j \in 1..Len(s) :
                      s[j] = " " /\ \A k \in 1..(j - 1) : s[k] # " "
         IN  <<SubSeq(s, 1, i - 1)>> \o Split(SubSeq(s, i + 1, Len(s)))

\* String.prototype.trim
RECURSIVE Trim(_)
Trim(s) ==
    IF s = <<>> THEN s
    ELSE IF Head(s) = " " THEN Trim(Tail(s))
    ELSE IF s[Len(s)] = " " THEN Trim(SubSeq(s, 1, Len(s) - 1))
    ELSE s

----------------------------------------------------------------------------
\* The world the handlers run in: agents, plugins, upstream catalogs

\* cursor: a detected agent of a kind ensureMcpServersInConfig names;
\* custom-1: a manually added (persisted) agent, of no named kind.
DetectedAgents == {"cursor"}
PersistedAgents == {"custom-1"}
AgentIds == DetectedAgents \cup PersistedAgents
NamedKinds == {"cursor", "windsurf", "claude-desktop", "continue", "aider", "cline"}

\* fs-mcp declares a command and env; raw-mcp resolved no package, so its
\* command is null.  Requests also name "ghost" (no agent) and "nope" (no record).
PluginIds == {"fs-mcp", "raw-mcp"}

\* "npx @x/fs" as characters: n = npx, f = the package
CmdFs == <<"n", " ", "f">>

EnvMeta(d) == [required |-> TRUE, description |-> d]
EnvOptional(d) == [required |-> FALSE, description |-> d]

\* A record as the upstream file ships it: no installation state.
UpstreamRecord(id) ==
    IF id = "fs-mcp"
    THEN [id |-> id, command |-> Str(CmdFs),
          env |-> Obj([k \in {"TOKEN", "URL", "OPT"} |->
                         IF k = "OPT" THEN EnvOptional("opt") ELSE EnvMeta(k)]),
          installed |-> FALSE, installed_agents |-> Undef, installation_date |-> 0]
    ELSE [id |-> id, command |-> JNull, env |-> Undef,
          installed |-> FALSE, installed_agents |-> Undef, installation_date |-> 0]

\* Object.entries order of a record's env keys
EnvKeyOrder == <<"TOKEN", "URL", "OPT">>

\* What the GET of the upstream registry file can end in.
\*   error   : network error or a body that does not parse (the promise rejects)
\*   parsed  : a JSON value; mcps is a list, a truthy non-list, or missing/falsy
UpstreamOutcomes ==
    { [t |-> "error"] }
    \cup { [t |-> "parsed", kind |-> "nomcps", mcps |-> <<>>, extra |-> TRUE] }
    \cup { [t |-> "parsed", kind |-> "nonlist", mcps |-> <<>>, extra |-> TRUE] }
    \cup { [t |-> "parsed", kind |-> "list", mcps |-> l, extra |-> TRUE] :
             l \in { <<>>,
                     <<UpstreamRecord("fs-mcp")>>,
                     <<UpstreamRecord("fs-mcp"), UpstreamRecord("raw-mcp")>> } }

\* envVars of a request body: none; URL missing; TOKEN blank and URL
\* empty; two complete ones
A1 == <<"a">>
B1 == <<"b">>
EnvA == Obj([k \in {"TOKEN", "URL"} |-> A1])
EnvB == Obj([k \in {"TOKEN", "URL"} |-> IF k = "TOKEN" THEN B1 ELSE A1])
EnvInputs ==
    { Undef,
      Obj([k \in {"TOKEN"} |-> A1]),
      Obj([k \in {"TOKEN", "URL"} |-> IF k = "TOKEN" THEN <<" ">> ELSE <<>>]),
      EnvA,
      EnvB }

\* The install requests followed: every envVars for the plugin that declares
\* env, and one request each for an unknown agent and an unknown plugin.
InstallRequests ==
    { <<a, "fs-mcp", e>> : a \in AgentIds, e \in EnvInputs }
    \cup { <<a, "raw-mcp", Undef>> : a \in AgentIds }
    \cup { <<a, "nope", Undef>> : a \in AgentIds }
    \cup { <<"ghost", "fs-mcp", EnvA>> }

\* The (agentId, mcpId) pairs of the uninstall and status requests followed
PairRequests ==
    { <<a, p>> : a \in AgentIds, p \in PluginIds } \cup { <<"ghost", "fs-mcp">> }

----------------------------------------------------------------------------
\* Files

\* An agent's config file.  shape: missing | garbage (does not parse) |
\* scalar (a JSON number, string, boolean or null) | array | object.
\* servers is what the mcpServers key holds: absent (missing or falsy) |
\* scalar (a truthy non-object) | array | map.  entries are the named
\* properties of mcpServers; other says whether the document has further
\* top-level keys.
File(shape, servers, entries, other) ==
    [shape |-> shape, servers |-> servers, entries |-> entries, other |-> other]

MissingFile == File("missing", "absent", EmptyMap, FALSE)
GarbageFile == File("garbage", "absent", EmptyMap, FALSE)
ScalarFile == File("scalar", "absent", EmptyMap, FALSE)
ArrayFile == File("array", "absent", EmptyMap, FALSE)
ObjectFile(servers, entries) == File("object", servers, entries, TRUE)

\* The registry cache file (MCP_REGISTRY_FILE).  kind: missing (no file, or
\* one that does not parse) | nonlist (an object whose mcps is no array) |
\* list.  extra: the document has top-level keys besides mcps.
Registry(kind, mcps, extra) == [kind |-> kind, mcps |-> mcps, extra |-> extra]

MissingCache == Registry("missing", <<>>, FALSE)

VARIABLES
    cache,      \* content of the registry cache file
    config,     \* config[a]: content of agent a's MCP config file
    clock,      \* the wall clock
    last,       \* the request just handled and its response, until delivered
    race,       \* the requests and callbacks in flight while two of them race
    backups,    \* backups[a][t]: content of the backup of a's config file
                \* named by timestamp t (followed by StoreSpec)
    persisted   \* content of the persisted-agents file (followed by AgentsSpec)

vars == <<cache, config, clock, last, race, backups, persisted>>

\* No two requests are in flight together.
NoRace == [t |-> "none"]

\* No backup has been made of any agent's config file.
NoBackups == [a \in AgentIds |-> EmptyMap]

\* The persisted-agents file: kind object (a JSON object, agents its
\* entries by id) | missing | garbage | array | scalar.  The file the
\* request handlers find lists the agent custom-1.
AgentsFile(kind, agents) == [kind |-> kind, agents |-> agents]
PersistedFile ==
    AgentsFile("object", [id \in PersistedAgents |->
                            [id |-> id, name |-> "mine", mcpConfigPath |-> id]])

----------------------------------------------------------------------------
\* Registry cache and ledger

\* saveOk = FALSE: fs.writeFileSync throws and the catch only warns.
saveMcpRegistry(file, registry, saveOk) ==
    IF saveOk THEN registry ELSE file

loadMcpRegistrySync(file) ==
    IF file.kind = "list"
    THEN Registry("list", file.mcps, FALSE)
    ELSE Registry("list", <<>>, FALSE)

\* The registry loadMcpRegistry returns and the cache file it leaves.
loadMcpRegistry(file, up, saveOk) ==
    IF up.t = "parsed" /\ up.kind # "nomcps"
    THEN LET githubRegistry == Registry(up.kind, up.mcps, up.extra)
         IN  [registry |-> githubRegistry,
              file |-> saveMcpRegistry(file, githubRegistry, saveOk)]
    ELSE [registry |-> loadMcpRegistrySync(file), file |-> file]

\* m.id === mcpId on an entry that is an object
Matches(m, mcpId) == m # JNull /\ m.id = mcpId

\* registry.mcps.find(m => m.id === mcpId) throws: it comes to a null entry,
\* where m.id is a TypeError, before it comes to a match.
FindThrows(mcps, mcpId) ==
    \E j \in 1..Len(mcps) :
        mcps[j] = JNull /\ \A k \in 1..(j - 1) : ~Matches(mcps[k], mcpId)

\* registry.mcps.find(m => m.id === mcpId), when it does not throw: index of
\* the first match, or 0
FindIndex(mcps, mcpId) ==
    IF \E i \in 1..Len(mcps) : Matches(mcps[i], mcpId)
    THEN CHOOSE i \in 1..Len(mcps) :
             /\ Matches(mcps[i], mcpId)
             /\ \A j \in 1..(i - 1) : ~Matches(mcps[j], mcpId)
    ELSE 0

\* Mutant of MarkInstalled: the date is stamped on every call.
MarkInstalled_Restamps(mcp, agentId, now) ==
    LET agents == IF mcp.installed_agents.t = "array"
                  THEN mcp.installed_agents.v ELSE <<>>
        pushed == IF Includes(agents, agentId) THEN agents
                  ELSE Append(agents, agentId)
    IN  [mcp EXCEPT !.installed_agents = Arr(pushed),
                    !.installed = TRUE,
                    !.installation_date = now]

\* The installed = true branch on one record
MarkInstalled(mcp, agentId, now) ==
    LET agents == IF mcp.installed_agents.t = "array"
                  THEN mcp.installed_agents.v ELSE <<>>
        pushed == IF Includes(agents, agentId) THEN agents
                  ELSE Append(agents, agentId)
    IN  IF mcp.installed
        THEN [mcp EXCEPT !.installed_agents = Arr(pushed)]
        ELSE [mcp EXCEPT !.installed_agents = Arr(pushed),
                         !.installed = TRUE,
                         !.installation_date = now]

\* Mutant of MarkUninstalled: the date is not cleared with the last agent.
MarkUninstalled_KeepsDate(mcp, agentId) ==
    IF mcp.installed_agents.t = "array"
    THEN LET kept == FilterOut(mcp.installed_agents.v, agentId)
         IN  IF kept = <<>>
             THEN [mcp EXCEPT !.installed_agents = Arr(kept),
                              !.installed = FALSE]
             ELSE [mcp EXCEPT !.installed_agents = Arr(kept)]
    ELSE mcp

\* Mutant of MarkUninstalled: removing any agent clears installed and the
\* date.
MarkUninstalled_ClearsAlways(mcp, agentId) ==
    IF mcp.installed_agents.t = "array"
    THEN [mcp EXCEPT !.installed_agents = Arr(FilterOut(mcp.installed_agents.v, agentId)),
                     !.installed = FALSE,
                     !.installation_date = 0]
    ELSE mcp

\* The installed = false branch on one record
MarkUninstalled(mcp, agentId) ==
    IF mcp.installed_agents.t = "array"
    THEN LET kept == FilterOut(mcp.installed_agents.v, agentId)
         IN  IF kept = <<>>
             THEN [mcp EXCEPT !.installed_agents = Arr(kept),
                              !.installed = FALSE,
                              !.installation_date = 0]
             ELSE [mcp EXCEPT !.installed_agents = Arr(kept)]
    ELSE mcp

\* Mutant of updateMcpInstallationStatus: the registry read is saved back
\* whether or not the record was found.
updateMcpInstallationStatus_SavesAlways(file, mcpId, agentId, installed, now, saveOk) ==
    LET registry == loadMcpRegistrySync(file)
        i == FindIndex(registry.mcps, mcpId)
    IN  IF FindThrows(registry.mcps, mcpId) THEN file
        ELSE IF i = 0 THEN saveMcpRegistry(file, registry, saveOk)
        ELSE LET mcp == IF installed
                        THEN MarkInstalled(registry.mcps[i], agentId, now)
                        ELSE MarkUninstalled(registry.mcps[i], agentId)
             IN  saveMcpRegistry(file,
                                 [registry EXCEPT !.mcps[i] = mcp], saveOk)

\* updateMcpInstallationStatus throws: its find does, on the cache file.
updateThrows(file, mcpId) == FindThrows(loadMcpRegistrySync(file).mcps, mcpId)

\* What e.message is then
NullEntryError == "Cannot read properties of null (reading 'id')"

\* The cache file after updateMcpInstallationStatus(mcpId, agentId, installed)
updateMcpInstallationStatus(file, mcpId, agentId, installed, now, saveOk) ==
    LET registry == loadMcpRegistrySync(file)
        i == FindIndex(registry.mcps, mcpId)
    IN  IF updateThrows(file, mcpId) \/ i = 0 THEN file
        ELSE LET mcp == IF installed
                        THEN MarkInstalled(registry.mcps[i], agentId, now)
                        ELSE MarkUninstalled(registry.mcps[i], agentId)
             IN  saveMcpRegistry(file,
                                 [registry EXCEPT !.mcps[i] = mcp], saveOk)

----------------------------------------------------------------------------
\* Agent config files

detectAgents == {a \in DetectedAgents : config[a].shape # "missing"}
                    \cup PersistedAgents

\* Mutant of readJson: only the failed read is caught, not the failed parse.
readJson_ParseUncaught(file) ==
    IF file.shape = "missing"
    THEN File("object", "absent", EmptyMap, FALSE)
    ELSE file

\* The value readJson returns: {} for a file that is missing or unparsable.
readJson(file) ==
    IF file.shape \in {"missing", "garbage"}
    THEN File("object", "absent", EmptyMap, FALSE)
    ELSE file

\* The in-memory config after ensureMcpServersInConfig(config, agentId).
\* A top-level array is an object to typeof, so it goes the object way.
ensureMcpServersInConfig(cfg, agentId) ==
    IF cfg.shape = "scalar"
    THEN File("object", "map", EmptyMap, FALSE)
    ELSE IF agentId \in NamedKinds
    THEN IF cfg.servers \in {"absent", "scalar"}
         THEN [cfg EXCEPT !.servers = "map", !.entries = EmptyMap]
         ELSE cfg
    ELSE IF cfg.servers # "absent"
    THEN cfg
    ELSE [cfg EXCEPT !.servers = "map", !.entries = EmptyMap]

\* config.mcpServers[serverId] = entry.  On a primitive (sloppy mode) the
\* assignment is dropped; on an array it makes a named property.
SetEntry(cfg, serverId, entry) ==
    IF cfg.servers = "scalar" THEN cfg
    ELSE [cfg EXCEPT !.entries = Put(@, serverId, entry)]

\* What a later read parses from JSON.stringify(data, null, 2): named
\* properties of an array are not serialised.
Stringify(data) ==
    IF data.shape = "array" THEN ArrayFile
    ELSE IF data.servers = "array" THEN [data EXCEPT !.entries = EmptyMap]
    ELSE data

\* e.message of a failed fs.mkdirSync or fs.writeFileSync: Node names the
\* path in it.
WriteError == "EACCES: permission denied, open 'mcpConfigPath'"

\* Mutant of writeJsonSafe: the copy is taken after the file is overwritten.
writeJsonSafe_CopiesAfter(file, data, bakOk, wrOk) ==
    [threw |-> ~wrOk,
     msg |-> IF wrOk THEN "" ELSE WriteError,
     file |-> IF wrOk THEN Stringify(data) ELSE file,
     wrote |-> wrOk,
     bak |-> file.shape # "missing" /\ bakOk,
     copy |-> IF wrOk THEN Stringify(data) ELSE file]

\* writeJsonSafe(file, data).  bakOk = FALSE: copyFileSync throws (swallowed);
\* wrOk = FALSE: mkdirSync or writeFileSync throws.  bak: a backup named
\* file + '.bak.' + Date.now() was written; copy: the content it holds.
writeJsonSafe(file, data, bakOk, wrOk) ==
    [threw |-> ~wrOk,
     msg |-> IF wrOk THEN "" ELSE WriteError,
     file |-> IF wrOk THEN Stringify(data) ELSE file,
     wrote |-> wrOk,
     bak |-> file.shape # "missing" /\ bakOk,
     copy |-> file]

\* Mutant of addServerToMcpConfig: an existing entry is extended, not replaced.
addServerToMcpConfig_Nests(file, serverId, serverCommand, env, agentId, bakOk, wrOk) ==
    LET cfg == ensureMcpServersInConfig(readJson(file), agentId)
    IN  IF serverCommand.t # "string"
        THEN [threw |-> TRUE,
              msg |-> "Cannot read properties of null (reading 'split')",
              file |-> file, wrote |-> FALSE, bak |-> FALSE]
        ELSE LET parts == Split(serverCommand.v)
                 old == IF serverId \in DOMAIN cfg.entries
                        THEN cfg.entries[serverId].args ELSE <<>>
                 entry == [command |-> parts[1], args |-> old \o Tail(parts),
                           env |-> env]
             IN  writeJsonSafe(file, SetEntry(cfg, serverId, entry), bakOk, wrOk)

\* Mutant of addServerToMcpConfig: the entry is written into a fresh config,
\* not into the one read from the file.
addServerToMcpConfig_FreshConfig(file, serverId, serverCommand, env, agentId, bakOk, wrOk) ==
    LET cfg == File("object", "map", EmptyMap, FALSE)
    IN  IF serverCommand.t # "string"
        THEN [threw |-> TRUE,
              msg |-> "Cannot read properties of null (reading 'split')",
              file |-> file, wrote |-> FALSE, bak |-> FALSE]
        ELSE LET parts == Split(serverCommand.v)
                 entry == [command |-> parts[1], args |-> Tail(parts), env |-> env]
             IN  writeJsonSafe(file, SetEntry(cfg, serverId, entry), bakOk, wrOk)

addServerToMcpConfig(file, serverId, serverCommand, env, agentId, bakOk, wrOk) ==
    LET cfg == ensureMcpServersInConfig(readJson(file), agentId)
    IN  IF serverCommand.t # "string"
        THEN [threw |-> TRUE,
              msg |-> "Cannot read properties of null (reading 'split')",
              file |-> file, wrote |-> FALSE, bak |-> FALSE]
        ELSE LET parts == Split(serverCommand.v)
                 entry == [command |-> parts[1], args |-> Tail(parts), env |-> env]
             IN  writeJsonSafe(file, SetEntry(cfg, serverId, entry), bakOk, wrOk)

\* Mutant of removeServerFromMcpConfig: deletes and writes without looking.
removeServerFromMcpConfig_Unconditional(file, serverId, agentId, bakOk, wrOk) ==
    LET cfg == ensureMcpServersInConfig(readJson(file), agentId)
    IN  [removed |-> TRUE] @@
        writeJsonSafe(file, [cfg EXCEPT !.entries = Del(@, serverId)],
                      bakOk, wrOk)

removeServerFromMcpConfig(file, serverId, agentId, bakOk, wrOk) ==
    LET cfg == ensureMcpServersInConfig(readJson(file), agentId)
    IN  IF cfg.servers # "absent" /\ serverId \in DOMAIN cfg.entries
        THEN [removed |-> TRUE] @@
             writeJsonSafe(file, [cfg EXCEPT !.entries = Del(@, serverId)],
                           bakOk, wrOk)
        ELSE [removed |-> FALSE, threw |-> FALSE, msg |-> "",
              file |-> file, wrote |-> FALSE, bak |-> FALSE]

----------------------------------------------------------------------------------------------------------------------------------------------------
\* Requests and responses

\* res: ok (200) | invalid_id (400) | missing_env (400) | not_found (404) |
\* error (500, msg = e.message) | uncaught (an exception left the handler).
\* missing: the missing list of a 400.  path: the response names the config
\* file path (mcpConfigPath of a 200, the path in the message of a failed
\* write).  body: the ids of the records a catalog response carries.
\* wrote / bak: the handler overwrote the agent's config file / copied it
\* to a backup.  again: the request repeats the one answered just before.
Reply(op, agentId, mcpId, envVars, res) ==
    [op |-> op, agent |-> agentId, plugin |-> mcpId, env |-> envVars,
     res |-> res, msg |-> "", missing |-> <<>>, path |-> FALSE,
     body |-> <<>>, wrote |-> FALSE, bak |-> FALSE, again |-> FALSE]

Idle == Reply("idle", "", "", Undef, "")

\* Mutant of Blank: the value is not trimmed.
Blank_NoTrim(envVars, key) ==
    \/ envVars.t # "object"
    \/ key \notin DOMAIN envVars.v
    \/ envVars.v[key] = <<>>

\* !envVars || !envVars[key] || envVars[key].trim() === ''
Blank(envVars, key) ==
    \/ envVars.t # "object"
    \/ key \notin DOMAIN envVars.v
    \/ envVars.v[key] = <<>>
    \/ Trim(envVars.v[key]) = <<>>

\* The missing list install builds: {key, ...config} of every required key
\* without a value, in Object.entries order.
RECURSIVE MissingFrom(_, _, _)
MissingFrom(keys, env, envVars) ==
    IF keys = <<>> THEN <<>>
    ELSE LET key == Head(keys)
             rest == MissingFrom(Tail(keys), env, envVars)
         IN  IF key \in DOMAIN env /\ env[key].required /\ Blank(envVars, key)
             THEN <<[key |-> key] @@ env[key]>> \o rest
             ELSE rest

MissingEnv(mcp, envVars) ==
    IF mcp.env.t = "object" THEN MissingFrom(EnvKeyOrder, mcp.env.v, envVars)
    ELSE <<>>

\* envVars || {}
EnvOrEmpty(envVars) == IF envVars.t = "object" THEN envVars.v ELSE EmptyMap

\* An outcome: the response plus the files the handler leaves
\* (file: the config file of the agent the request resolved, if any).
Outcome(resp, registryFile, agentFile) ==
    [resp |-> resp, cache |-> registryFile, file |-> agentFile]

\* POST /api/install up to and including the env validation: the result that
\* ends the request, or "continue" with the index of the record found.  The
\* find and the validation stand before the try: what they throw leaves the
\* handler.
InstallChecks(agentId, mcpId, envVars, registry) ==
    IF registry.kind # "list" \/ FindThrows(registry.mcps, mcpId)
    THEN [res |-> "uncaught", missing |-> <<>>, i |-> 0]
    ELSE LET i == FindIndex(registry.mcps, mcpId)
         IN  IF agentId \notin detectAgents \/ i = 0
             THEN [res |-> "invalid_id", missing |-> <<>>, i |-> i]
             ELSE IF MissingEnv(registry.mcps[i], envVars) # <<>>
             THEN [res |-> "missing_env",
                   missing |-> MissingEnv(registry.mcps[i], envVars), i |-> i]
             ELSE [res |-> "continue", missing |-> <<>>, i |-> i]

\* The try block of POST /api/install
InstallMutation(agentId, mcpId, envVars, mcp, registryFile, bakOk, wrOk, saveOk) ==
    LET added == addServerToMcpConfig(config[agentId], mcp.id, mcp.command,
                                      EnvOrEmpty(envVars), agentId, bakOk, wrOk)
        req == Reply("install", agentId, mcpId, envVars, "")
    IN  IF added.threw
        THEN Outcome([req EXCEPT !.res = "error", !.msg = added.msg,
                                 !.path = (added.msg = WriteError),
                                 !.wrote = added.wrote, !.bak = added.bak],
                     registryFile, added.file)
        ELSE IF updateThrows(registryFile, mcpId)
        THEN Outcome([req EXCEPT !.res = "error", !.msg = NullEntryError,
                                 !.wrote = added.wrote, !.bak = added.bak],
                     registryFile, added.file)
        ELSE Outcome([req EXCEPT !.res = "ok", !.path = TRUE,
                                 !.wrote = added.wrote, !.bak = added.bak],
                     updateMcpInstallationStatus(registryFile, mcpId, agentId,
                                                 TRUE, clock, saveOk),
                     added.file)

\* POST /api/install
InstallHandler(agentId, mcpId, envVars, up, saveOk1, bakOk, wrOk, saveOk2) ==
    LET loaded == loadMcpRegistry(cache, up, saveOk1)
        checks == InstallChecks(agentId, mcpId, envVars, loaded.registry)
        req == Reply("install", agentId, mcpId, envVars, "")
    IN  IF checks.res # "continue"
        THEN Outcome([req EXCEPT !.res = checks.res, !.missing = checks.missing],
                     loaded.file,
                     IF agentId \in AgentIds THEN config[agentId] ELSE MissingFile)
        ELSE InstallMutation(agentId, mcpId, envVars,
                             loaded.registry.mcps[checks.i], loaded.file,
                             bakOk, wrOk, saveOk2)

\* POST /api/uninstall
UninstallHandler(agentId, mcpId, bakOk, wrOk, saveOk) ==
    LET req == Reply("uninstall", agentId, mcpId, Undef, "")
    IN  IF agentId \notin detectAgents
        THEN Outcome([req EXCEPT !.res = "invalid_id"], cache, MissingFile)
        ELSE LET rm == removeServerFromMcpConfig(config[agentId], mcpId, agentId,
                                                 bakOk, wrOk)
             IN  IF rm.threw
                 THEN Outcome([req EXCEPT !.res = "error", !.msg = rm.msg,
                                          !.path = (rm.msg = WriteError),
                                          !.wrote = rm.wrote, !.bak = rm.bak],
                              cache, rm.file)
                 ELSE IF rm.removed /\ updateThrows(cache, mcpId)
                 THEN Outcome([req EXCEPT !.res = "error", !.msg = NullEntryError,
                                          !.wrote = rm.wrote, !.bak = rm.bak],
                              cache, rm.file)
                 ELSE IF rm.removed
                 THEN Outcome([req EXCEPT !.res = "ok", !.path = TRUE,
                                          !.wrote = rm.wrote, !.bak = rm.bak],
                              updateMcpInstallationStatus(cache, mcpId, agentId,
                                                          FALSE, clock, saveOk),
                              rm.file)
                 ELSE Outcome([req EXCEPT !.res = "not_found"], cache, rm.file)

\* GET /api/mcp-status/:agentId/:mcpId, the installed flag it reports
\* (every agent of the model has a config path)
\* Mutant of getInstallStatus: the flag is read from the ledger.
getInstallStatus_FromLedger(agentId, mcpId) ==
    LET mcps == loadMcpRegistrySync(cache).mcps
        i == FindIndex(mcps, mcpId)
    IN  /\ i # 0
        /\ mcps[i].installed_agents.t = "array"
        /\ Includes(mcps[i].installed_agents.v, agentId)

getInstallStatus(agentId, mcpId) ==
    LET cfg == ensureMcpServersInConfig(readJson(config[agentId]), agentId)
    IN  cfg.servers # "absent" /\ mcpId \in DOMAIN cfg.entries

StatusHandler(agentId, mcpId) ==
    LET req == Reply("status", agentId, mcpId, Undef, "")
    IN  IF agentId \notin detectAgents THEN [req EXCEPT !.res = "not_found"]
        ELSE IF getInstallStatus(agentId, mcpId)
        THEN [req EXCEPT !.res = "installed"]
        ELSE [req EXCEPT !.res = "not_installed"]

\* ids of the records of a list
Ids(mcps) == [i \in 1..Len(mcps) |-> mcps[i].id]

\* GET /api/catalog: catalog.reduce throws on a non-list, item.category
\* throws on a null entry, and the catch answers 500.
CatalogHandler(up, saveOk) ==
    LET loaded == loadMcpRegistry(cache, up, saveOk)
        req == Reply("catalog", "", "", Undef, "")
    IN  IF \/ loaded.registry.kind # "list"
           \/ Includes(loaded.registry.mcps, JNull)
        THEN Outcome([req EXCEPT !.res = "error",
                                 !.msg = "Failed to load catalog"],
                     loaded.file, MissingFile)
        ELSE Outcome([req EXCEPT !.res = "ok",
                                 !.body = Ids(loaded.registry.mcps)],
                     loaded.file, MissingFile)

\* Mutant of RefreshFile: a parsed response is saved whether or not it has
\* mcps.
RefreshFile_SavesWithoutMcps(file, up, saveOk) ==
    IF up.t = "parsed"
    THEN saveMcpRegistry(file,
                         Registry(IF up.kind = "list" THEN "list" ELSE "nonlist",
                                  up.mcps, up.extra), saveOk)
    ELSE file

\* Mutant of RefreshFile: a fetch that yields no catalog empties the cache.
RefreshFile_ClearsOnFailure(file, up, saveOk) ==
    IF up.t = "parsed" /\ up.kind # "nomcps"
    THEN saveMcpRegistry(file, Registry(up.kind, up.mcps, up.extra), saveOk)
    ELSE Registry("list", <<>>, FALSE)

\* The cache file after the fetch-and-save of POST /api/refresh-registry
\* and of the setInterval callback, which share it.
RefreshFile(file, up, saveOk) ==
    IF up.t = "parsed" /\ up.kind # "nomcps"
    THEN saveMcpRegistry(file, Registry(up.kind, up.mcps, up.extra), saveOk)
    ELSE file

\* POST /api/refresh-registry: always answers success
RefreshHandler(up, saveOk) ==
    LET req == Reply("refresh", "", "", Undef, "ok")
    IN  Outcome([req EXCEPT !.msg = IF up.t = "parsed" /\ up.kind # "nomcps"
                                    THEN "Registry updated successfully"
                                    ELSE "Using local registry (GitHub unavailable)"],
                RefreshFile(cache, up, saveOk), MissingFile)

----------------------------------------------------------------------------
\* The state machine

\* An entry some other tool put into a config file
ForeignEntry == [command |-> <<"x">>, args |-> <<>>, env |-> EmptyMap]
ForeignServers == [k \in {"other-mcp"} |-> ForeignEntry]

\* Contents an existing config file may start with
DetectedFiles ==
    { GarbageFile, ObjectFile("absent", EmptyMap),
      ObjectFile("array", EmptyMap), ObjectFile("map", ForeignServers) }

\* Contents the file of a persisted agent may start with
PersistedFiles ==
    { MissingFile, ScalarFile, ArrayFile, ObjectFile("scalar", EmptyMap) }

\* The registry file the package ships with, if any
ShippedCache ==
    Registry("list", <<UpstreamRecord("fs-mcp"), UpstreamRecord("raw-mcp")>>, TRUE)

\* A detected agent is one whose config file exists; the file of a persisted
\* agent existed when it was added and may be gone since.
Init ==
    /\ cache \in {MissingCache, ShippedCache}
    /\ config \in [AgentIds -> DetectedFiles \cup PersistedFiles]
    /\ \A a \in DetectedAgents : config[a] \in DetectedFiles
    /\ \A a \in PersistedAgents : config[a] \in PersistedFiles
    /\ clock = 1
    /\ last = Idle
    /\ race = NoRace
    /\ backups = NoBackups
    /\ persisted = PersistedFile

\* The outcomes of fs.writeFileSync on the cache file that can matter
SaveChoices(up) ==
    IF up.t = "parsed" /\ up.kind # "nomcps" THEN BOOLEAN ELSE {TRUE}

Apply(o, agentId) ==
    /\ cache' = o.cache
    /\ config' = IF agentId \in AgentIds
                 THEN [config EXCEPT ![agentId] = o.file] ELSE config
    /\ last' = [o.resp EXCEPT !.again = (last # Idle)]
    /\ UNCHANGED <<clock, race, backups, persisted>>

\* The client sends the request that has just succeeded once more.
Repeats(op, agentId, mcpId, envVars) ==
    /\ last.op = op /\ last.res = "ok" /\ ~last.again /\ last.agent = agentId
    /\ last.plugin = mcpId /\ last.env = envVars

\* The outcomes <<bakOk, wrOk, saveOk>> of the file operations of a write
\* to an agent's config file and of the ledger save after it, as far as the
\* handler gets to them.
WriteChoices(file, writes) ==
    IF ~writes THEN {<<TRUE, TRUE, TRUE>>}
    ELSE {t \in BOOLEAN \X BOOLEAN \X BOOLEAN :
            /\ file.shape = "missing" => t[1]
            /\ ~t[2] => t[3]}

\* POST /api/install while the fetch of the upstream file ends in one of ups
InstallFrom(ups, agentId, mcpId, envVars) ==
    /\ last = Idle \/ Repeats("install", agentId, mcpId, envVars)
    /\ \E up \in ups : \E saveOk1 \in SaveChoices(up) :
         LET registry == loadMcpRegistry(cache, up, saveOk1).registry
             checks == InstallChecks(agentId, mcpId, envVars, registry)
             writes == /\ checks.res = "continue"
                       /\ registry.mcps[checks.i].command.t = "string"
         IN  \E t \in WriteChoices(IF writes THEN config[agentId] ELSE MissingFile,
                                   writes) :
                 Apply(InstallHandler(agentId, mcpId, envVars, up, saveOk1,
                                      t[1], t[2], t[3]), agentId)

Install(agentId, mcpId, envVars) ==
    InstallFrom(UpstreamOutcomes, agentId, mcpId, envVars)

Uninstall(agentId, mcpId) ==
    /\ last = Idle \/ Repeats("uninstall", agentId, mcpId, Undef)
    /\ LET writes == agentId \in detectAgents /\ getInstallStatus(agentId, mcpId)
       IN  \E t \in WriteChoices(IF writes THEN config[agentId] ELSE MissingFile,
                                 writes) :
               Apply(UninstallHandler(agentId, mcpId, t[1], t[2], t[3]), agentId)

GetInstallStatus(agentId, mcpId) ==
    /\ last = Idle
    /\ last' = StatusHandler(agentId, mcpId)
    /\ UNCHANGED <<cache, config, clock, race, backups, persisted>>

\* GET /api/catalog while the fetch of the upstream file ends in one of ups
GetCatalogFrom(ups) ==
    /\ last = Idle
    /\ \E up \in ups : \E saveOk \in SaveChoices(up) :
         Apply(CatalogHandler(up, saveOk), "")

GetCatalog == GetCatalogFrom(UpstreamOutcomes)

RefreshCatalog ==
    /\ last = Idle
    /\ \E up \in UpstreamOutcomes : \E saveOk \in SaveChoices(up) :
         Apply(RefreshHandler(up, saveOk), "")

\* The setInterval callback: fetch and save, no response
PeriodicRefresh ==
    /\ last = Idle
    /\ \E up \in UpstreamOutcomes : \E saveOk \in SaveChoices(up) :
         cache' = RefreshFile(cache, up, saveOk)
    /\ UNCHANGED <<config, clock, last, race, backups, persisted>>

\* Time passes
Tick ==
    /\ last = Idle
    /\ clock < MaxClock
    /\ clock' = clock + 1
    /\ UNCHANGED <<cache, config, last, race, backups, persisted>>

\* The response reaches the client
Deliver ==
    /\ last # Idle
    /\ last' = Idle
    /\ UNCHANGED <<cache, config, clock, race, backups, persisted>>

Next ==
    \/ \E r \in InstallRequests : Install(r[1], r[2], r[3])
    \/ \E r \in PairRequests : Uninstall(r[1], r[2])
    \/ \E r \in PairRequests : GetInstallStatus(r[1], r[2])
    \/ GetCatalog
    \/ RefreshCatalog
    \/ PeriodicRefresh
    \/ Tick
    \/ Deliver

Spec == Init /\ [][Next]_vars

----------------------------------------------------------------------------
\* The ledger on its own: updateMcpInstallationStatus called directly, on
\* every cache file and with every id

\* Cache files the calls start from: none, one whose mcps is no list, an
\* empty list, the fetched catalogs.
LedgerFiles ==
    { MissingCache, Registry("nonlist", <<>>, TRUE), Registry("list", <<>>, TRUE),
      Registry("list", <<UpstreamRecord("fs-mcp")>>, TRUE), ShippedCache }

\* The ids the calls name: every plugin and one id of no record
LedgerIds == PluginIds \cup {"nope"}

LedgerInit ==
    /\ cache \in LedgerFiles
    /\ config = [a \in AgentIds |-> MissingFile]
    /\ clock = 1
    /\ last = Idle
    /\ race = NoRace
    /\ backups = NoBackups
    /\ persisted = PersistedFile

\* updateMcpInstallationStatus(mcpId, agentId, true)
UpdateInstalled(mcpId, agentId) ==
    /\ \E saveOk \in BOOLEAN :
         cache' = updateMcpInstallationStatus(cache, mcpId, agentId, TRUE,
                                              clock, saveOk)
    /\ last' = Reply("markInstalled", agentId, mcpId, Undef, "returned")
    /\ UNCHANGED <<config, clock, race, backups, persisted>>

\* updateMcpInstallationStatus(mcpId, agentId, false)
UpdateUninstalled(mcpId, agentId) ==
    /\ \E saveOk \in BOOLEAN :
         cache' = updateMcpInstallationStatus(cache, mcpId, agentId, FALSE,
                                              clock, saveOk)
    /\ last' = Reply("markUninstalled", agentId, mcpId, Undef, "returned")
    /\ UNCHANGED <<config, clock, race, backups, persisted>>

LedgerNext ==
    \/ \E p \in LedgerIds, a \in AgentIds : UpdateInstalled(p, a)
    \/ \E p \in LedgerIds, a \in AgentIds : UpdateUninstalled(p, a)
    \/ Tick
    \/ Deliver

LedgerSpec == LedgerInit /\ [][LedgerNext]_vars

----------------------------------------------------------------------------
\* A refresh request and the timer callback in flight together.  Each awaits
\* its fetch and, when it is resumed, saves what it got; the two callbacks
\* are resumed in either order.

Refreshers == {"request", "timer"}

\* A cache file that marks fs-mcp installed for cursor
MarkedCache ==
    updateMcpInstallationStatus(ShippedCache, "fs-mcp", "cursor", TRUE, 1, TRUE)

\* The upstream file the two fetch and the cache file they start from stay
\* in race.up and race.cache0; got is what a callback's fetch ended in,
\* wrote whether its save changed the file on disk.
RefreshRaceInit ==
    /\ cache \in {MissingCache, Registry("list", <<UpstreamRecord("fs-mcp")>>, TRUE),
                  ShippedCache, MarkedCache}
    /\ config = [a \in AgentIds |-> MissingFile]
    /\ clock = 1
    /\ last = Idle
    /\ backups = NoBackups
    /\ persisted = PersistedFile
    /\ \E up \in UpstreamOutcomes :
         /\ up.t = "parsed"
         /\ race = [t |-> "refresh", up |-> up, cache0 |-> cache,
                    pc |-> [p \in Refreshers |-> "start"],
                    got |-> [p \in Refreshers |-> [t |-> "error"]],
                    wrote |-> [p \in Refreshers |-> FALSE]]

\* await fetchCatalogFromGitHub(): the response arrives, or the request fails
RefreshFetch(p) ==
    /\ race.pc[p] = "start"
    /\ \E got \in {race.up, [t |-> "error"]} :
         race' = [race EXCEPT !.pc[p] = "fetched", !.got[p] = got]
    /\ UNCHANGED <<cache, config, clock, last, backups, persisted>>

\* The callback resumed after its fetch: the test, the save and, for the
\* request, the response
RefreshWrite(p) ==
    /\ race.pc[p] = "fetched"
    /\ \E saveOk \in SaveChoices(race.got[p]) :
         /\ cache' = RefreshFile(cache, race.got[p], saveOk)
         /\ race' = [race EXCEPT !.pc[p] = "done",
                                  !.wrote[p] = /\ race.got[p].t = "parsed"
                                               /\ race.got[p].kind # "nomcps"
                                               /\ saveOk]
         /\ last' = IF p = "request"
                    THEN RefreshHandler(race.got[p], saveOk).resp ELSE last
    /\ UNCHANGED <<config, clock, backups, persisted>>

RefreshRaceNext ==
    \/ \E p \in Refreshers : RefreshFetch(p)
    \/ \E p \in Refreshers : RefreshWrite(p)

RefreshRaceSpec == RefreshRaceInit /\ [][RefreshRaceNext]_vars

----------------------------------------------------------------------------
\* Two install requests for the same agent and plugin in flight together.
\* A handler gives up control only at await loadMcpRegistry(); what follows
\* (the checks, the config write, the ledger update, the response) runs
\* without a break.

Installers == {"first", "second"}

\* The envVars of the two requests
RaceEnv == [r \in Installers |-> IF r = "first" THEN EnvA ELSE EnvB]

\* race.registry[r]: the registry r's load returned; race.resp[r]: r's
\* response; race.order: the requests that overwrote the config file, in
\* the order of their writes.
InstallRaceInit ==
    /\ cache \in {MissingCache, ShippedCache, MarkedCache}
    /\ config \in [AgentIds -> DetectedFiles \cup PersistedFiles]
    /\ \A a \in DetectedAgents : config[a] \in DetectedFiles
    /\ \A a \in PersistedAgents : config[a] \in PersistedFiles
    /\ clock = 1
    /\ last = Idle
    /\ backups = NoBackups
    /\ persisted = PersistedFile
    /\ \E a \in AgentIds :
         race = [t |-> "install", agent |-> a, plugin |-> "fs-mcp",
                 pc |-> [r \in Installers |-> "start"],
                 registry |-> [r \in Installers |-> Registry("list", <<>>, FALSE)],
                 resp |-> [r \in Installers |-> Idle],
                 order |-> <<>>]

\* await loadMcpRegistry(): the fetch ends, a fetched catalog is saved and
\* the registry is handed to the handler
InstallLoad(r) ==
    /\ race.t = "install" /\ race.pc[r] = "start"
    /\ \E up \in UpstreamOutcomes : \E saveOk \in SaveChoices(up) :
         LET loaded == loadMcpRegistry(cache, up, saveOk)
         IN  /\ cache' = loaded.file
             /\ race' = [race EXCEPT !.pc[r] = "loaded",
                                      !.registry[r] = loaded.registry]
    /\ UNCHANGED <<config, clock, last, backups, persisted>>

\* The handler resumed with its registry: the rest of POST /api/install
InstallFinish(r) ==
    /\ race.t = "install" /\ race.pc[r] = "loaded"
    /\ LET registry == race.registry[r]
           checks == InstallChecks(race.agent, race.plugin, RaceEnv[r], registry)
           req == Reply("install", race.agent, race.plugin, RaceEnv[r], "")
       IN  IF checks.res # "continue"
           THEN /\ race' = [race EXCEPT !.pc[r] = "done",
                                !.resp[r] = [req EXCEPT !.res = checks.res,
                                                      !.missing = checks.missing]]
                /\ UNCHANGED <<cache, config>>
           ELSE \E t \in WriteChoices(config[race.agent], TRUE) :
                  LET o == InstallMutation(race.agent, race.plugin, RaceEnv[r],
                                           registry.mcps[checks.i], cache,
                                           t[1], t[2], t[3])
                  IN  /\ cache' = o.cache
                      /\ config' = [config EXCEPT ![race.agent] = o.file]
                      /\ race' = [race EXCEPT
                                    !.pc[r] = "done",
                                    !.resp[r] = o.resp,
                                    !.order = IF o.resp.wrote
                                              THEN Append(@, r) ELSE @]
    /\ UNCHANGED <<clock, last, backups, persisted>>

InstallRaceNext ==
    \/ \E r \in Installers : InstallLoad(r)
    \/ \E r \in Installers : InstallFinish(r)

InstallRaceSpec == InstallRaceInit /\ [][InstallRaceNext]_vars

----------------------------------------------------------------------------
\* The config store on its own: readJson, ensureMcpServersInConfig,
\* addServerToMcpConfig and removeServerFromMcpConfig called directly on one
\* agent's config file, of every shape a file can have.

\* Contents the file starts with
StoreFiles ==
    { MissingFile, GarbageFile, ScalarFile, ArrayFile,
      ObjectFile("absent", EmptyMap), ObjectFile("scalar", EmptyMap),
      ObjectFile("array", EmptyMap), ObjectFile("map", ForeignServers) }

\* Command lines the calls pass: "npx pkg", with a run of two spaces, with
\* a leading and a trailing space, the empty string, one space
CommandLines ==
    { CmdFs, <<"n", " ", " ", "f">>, <<" ", "n", " ">>, <<>>, <<" ">> }

\* The call just made: the file it found, whether copyFileSync and
\* writeFileSync were to succeed, and what it returned
StoreCall(op, agentId, serverId, commandLine, bakOk, wrOk, out) ==
    [op |-> op, agent |-> agentId, plugin |-> serverId, cmd |-> commandLine,
     before |-> config[agentId], bakOk |-> bakOk, wrOk |-> wrOk, out |-> out]

\* race.agent: the agent whose file the calls are made on
StoreInit ==
    /\ cache = MissingCache
    /\ \E a \in AgentIds : \E f \in StoreFiles :
         /\ config = [b \in AgentIds |-> IF b = a THEN f ELSE MissingFile]
         /\ race = [t |-> "store", agent |-> a]
    /\ clock = 1
    /\ last = Idle
    /\ backups = NoBackups
    /\ persisted = PersistedFile

\* The files a call of writeJsonSafe leaves: the config file and, when the
\* copy was made, the backup named by the time of the write
StoreFilesAfter(agentId, out) ==
    /\ config' = [config EXCEPT ![agentId] = out.file]
    /\ backups' = IF out.bak
                  THEN [backups EXCEPT ![agentId] = Put(@, clock, out.copy)]
                  ELSE backups

\* readJson(mcpConfigPath); threw: what it handed back is no JSON value
ReadConfig ==
    /\ last = Idle
    /\ LET value == readJson(config[race.agent])
       IN  last' = StoreCall("readJson", race.agent, "", <<>>, TRUE, TRUE,
                             [threw |-> value.shape \in {"missing", "garbage"},
                              value |-> value])
    /\ UNCHANGED <<cache, config, clock, race, backups, persisted>>

\* ensureMcpServersInConfig(readJson(mcpConfigPath), agentId)
EnsureSchema ==
    /\ last = Idle
    /\ last' = StoreCall("ensureMcpServersInConfig", race.agent, "", <<>>,
                         TRUE, TRUE,
                         [value |-> ensureMcpServersInConfig(
                                        readJson(config[race.agent]), race.agent)])
    /\ UNCHANGED <<cache, config, clock, race, backups, persisted>>

\* addServerToMcpConfig(mcpConfigPath, 'fs-mcp', commandLine, {}, agentId)
AddServer(commandLine) ==
    /\ last = Idle
    /\ \E bakOk \in BOOLEAN, wrOk \in BOOLEAN :
         /\ config[race.agent].shape = "missing" => bakOk
         /\ LET out == addServerToMcpConfig(config[race.agent], "fs-mcp",
                                            Str(commandLine), EmptyMap,
                                            race.agent, bakOk, wrOk)
            IN  /\ StoreFilesAfter(race.agent, out)
                /\ last' = StoreCall("addServerToMcpConfig", race.agent,
                                     "fs-mcp", commandLine, bakOk, wrOk, out)
    /\ UNCHANGED <<cache, clock, race, persisted>>

\* removeServerFromMcpConfig(mcpConfigPath, serverId, agentId)
RemoveServer(serverId) ==
    /\ last = Idle
    /\ \E bakOk \in BOOLEAN, wrOk \in BOOLEAN :
         /\ ~getInstallStatus(race.agent, serverId) => bakOk /\ wrOk
         /\ LET out == removeServerFromMcpConfig(config[race.agent], serverId,
                                                 race.agent, bakOk, wrOk)
            IN  /\ StoreFilesAfter(race.agent, out)
                /\ last' = StoreCall("removeServerFromMcpConfig", race.agent,
                                     serverId, <<>>, bakOk, wrOk, out)
    /\ UNCHANGED <<cache, clock, race, persisted>>

StoreNext ==
    \/ ReadConfig
    \/ EnsureSchema
    \/ \E c \in CommandLines : AddServer(c)
    \/ \E id \in {"fs-mcp", "other-mcp"} : RemoveServer(id)
    \/ Tick
    \/ Deliver

StoreSpec == StoreInit /\ [][StoreNext]_vars

----------------------------------------------------------------------------
\* An upstream file with one malformed entry among its records

\* An entry with no id: m.id is undefined, which no id of a request equals
NoId == "undefined"
NoIdRecord == [UpstreamRecord("raw-mcp") EXCEPT !.id = NoId]

\* The two valid records with a null entry or an entry with no id before,
\* between or after them
MalformedLists ==
    LET fs == UpstreamRecord("fs-mcp")
        raw == UpstreamRecord("raw-mcp")
    IN  { <<bad, fs, raw>> : bad \in {JNull, NoIdRecord} }
        \cup { <<fs, bad, raw>> : bad \in {JNull, NoIdRecord} }
        \cup { <<fs, raw, bad>> : bad \in {JNull, NoIdRecord} }

\* What the GET of such a file can end in
MalformedOutcomes ==
    { [t |-> "error"] }
    \cup { [t |-> "parsed", kind |-> "list", mcps |-> l, extra |-> TRUE] :
             l \in MalformedLists }

\* The cache starts as the shipped file, so that the two valid records are
\* in whatever the chain hands to a handler.
MalformedInit ==
    /\ cache = ShippedCache
    /\ config \in [AgentIds -> DetectedFiles \cup PersistedFiles]
    /\ \A a \in DetectedAgents : config[a] \in DetectedFiles
    /\ \A a \in PersistedAgents : config[a] \in PersistedFiles
    /\ clock = 1
    /\ last = Idle
    /\ race = NoRace
    /\ backups = NoBackups
    /\ persisted = PersistedFile

MalformedNext ==
    \/ GetCatalogFrom(MalformedOutcomes)
    \/ \E a \in AgentIds : InstallFrom(MalformedOutcomes, a, "fs-mcp", EnvA)
    \/ \E a \in AgentIds : Uninstall(a, "fs-mcp")
    \/ Deliver

MalformedSpec == MalformedInit /\ [][MalformedNext]_vars

----------------------------------------------------------------------------
\* Manually added agents: POST /api/add-agent and the listing of GET
\* /api/agents, on the persisted-agents file

\* `custom-${Date.now()}`
CustomId(now) == <<"custom-1", "custom-2", "custom-3", "custom-4">>[now]

\* The entry add-agent stores
PersistedAgent(id, name, mcpConfigPath) ==
    [id |-> id, name |-> name, mcpConfigPath |-> mcpConfigPath,
     type |-> "persisted"]

\* A file that lists one agent added before
OlderFile ==
    AgentsFile("object",
               [id \in {"custom-0"} |-> PersistedAgent(id, "mine", "cursor")])

\* Contents the persisted-agents file may start with: none, one that does
\* not parse, the JSON values null, a number, an empty array, {}, and a file
\* with an agent
AgentsFiles ==
    { AgentsFile(k, EmptyMap) :
        k \in {"missing", "garbage", "null", "scalar", "array", "object"} }
    \cup { OlderFile }

\* The value loadPersistedAgents returns
loadPersistedAgents(file) ==
    IF file.kind \in {"missing", "garbage"}
    THEN AgentsFile("object", EmptyMap) ELSE file

\* saveOk = FALSE: fs.writeFileSync throws and the catch only warns.
savePersistedAgents(file, agents, saveOk) ==
    IF saveOk THEN agents ELSE file

\* persistedAgents[agentId] = {...}: an own property of an object; on an
\* array a named property, which JSON.stringify leaves out; on a number
\* nothing.
SetAgent(agents, agentId, agent) ==
    IF agents.kind = "object"
    THEN [agents EXCEPT !.agents = Put(@, agentId, agent)]
    ELSE agents

\* The persisted part of detectAgents(): {...agent, type: 'persisted'} of
\* every value of the file
ListedAgents(file) ==
    LET agents == loadPersistedAgents(file)
    IN  IF agents.kind = "object"
        THEN { [agents.agents[id] EXCEPT !.type = "persisted"] :
                 id \in DOMAIN agents.agents }
        ELSE {}

\* The request just handled and its response.  res: ok | invalid (400) |
\* error (500).  id: the agentId of a success; list: the persisted agents a
\* listing carries.
AgentsCall(op, name, mcpConfigPath, res, id, list) ==
    [op |-> op, name |-> name, path |-> mcpConfigPath, res |-> res,
     id |-> id, list |-> list]

\* race.promised: the agents that were in the file at the start or that an
\* add-agent answered success for
AgentsInit ==
    /\ cache = MissingCache
    /\ config = [a \in AgentIds |->
                   IF a = "cursor" THEN ObjectFile("map", ForeignServers)
                   ELSE MissingFile]
    /\ clock = 1
    /\ last = Idle
    /\ backups = NoBackups
    /\ persisted \in AgentsFiles
    /\ race = [t |-> "agents", promised |-> ListedAgents(persisted)]

\* POST /api/add-agent {name, mcpConfigPath}; "" stands for a field left out
AddAgent(name, mcpConfigPath) ==
    /\ last = Idle
    /\ LET agents == loadPersistedAgents(persisted)
           agentId == CustomId(clock)
           agent == PersistedAgent(agentId, name, mcpConfigPath)
           req(res, id) == AgentsCall("add-agent", name, mcpConfigPath, res, id, {})
       IN  IF name = "" \/ mcpConfigPath = ""
           THEN /\ last' = req("invalid", "")
                /\ UNCHANGED <<persisted, race>>
           ELSE IF config[mcpConfigPath].shape = "missing"
           THEN /\ last' = req("invalid", "")
                /\ UNCHANGED <<persisted, race>>
           ELSE IF agents.kind = "null"
           THEN /\ last' = req("error", "")
                /\ UNCHANGED <<persisted, race>>
           ELSE \E saveOk \in BOOLEAN :
                  /\ persisted' = savePersistedAgents(
                                      persisted,
                                      SetAgent(agents, agentId, agent), saveOk)
                  /\ last' = req("ok", agentId)
                  /\ race' = [race EXCEPT !.promised = @ \cup {agent}]
    /\ UNCHANGED <<cache, config, clock, backups>>

\* GET /api/agents: Object.values(null) throws and the request ends in a 500
ListAgents ==
    /\ last = Idle
    /\ last' = AgentsCall("agents", "", "",
                          IF persisted.kind = "null" THEN "error" ELSE "ok",
                          "", ListedAgents(persisted))
    /\ UNCHANGED <<cache, config, clock, race, backups, persisted>>

AgentsNext ==
    \/ \E name \in {"", "a", "b"}, path \in {"", "cursor", "custom-1"} :
         AddAgent(name, path)
    \/ ListAgents
    \/ Tick
    \/ Deliver

AgentsSpec == AgentsInit /\ [][AgentsNext]_vars

----------------------------------------------------------------------------
\* One fetch of the upstream registry: fetchCatalogFromGitHub as
\* loadMcpRegistry awaits it, event by event

\* race.up: what the server has to send (an error outcome is a request that
\* fails or a body that does not parse); race.next: the body names a cursor
\* to a further page; race.gets: the GET requests issued so far; race.data:
\* a chunk of the body has arrived; race.got: what the promise settled to.
FetchInit ==
    /\ cache \in LedgerFiles
    /\ config = [a \in AgentIds |-> MissingFile]
    /\ clock = 1
    /\ last = Idle
    /\ backups = NoBackups
    /\ persisted = PersistedFile
    /\ \E up \in UpstreamOutcomes, next \in BOOLEAN :
         race = [t |-> "fetch", pc |-> "start", up |-> up, next |-> next,
                 gets |-> 0, data |-> FALSE, got |-> [t |-> "error"]]

\* https.get(url, callback)
FetchGet ==
    /\ race.t = "fetch" /\ race.pc = "start"
    /\ race' = [race EXCEPT !.pc = "waiting", !.gets = @ + 1]
    /\ UNCHANGED <<cache, config, clock, last, backups, persisted>>

\* res.on('data'): data += chunk
FetchData ==
    /\ race.t = "fetch" /\ race.pc = "waiting" /\ ~race.data
    /\ race' = [race EXCEPT !.data = TRUE]
    /\ UNCHANGED <<cache, config, clock, last, backups, persisted>>

\* res.on('end'): JSON.parse(data), then resolve(registry) or reject(e)
FetchEnd ==
    /\ race.t = "fetch" /\ race.pc = "waiting" /\ race.data
    /\ race' = [race EXCEPT !.pc = IF race.up.t = "parsed"
                                   THEN "resolved" ELSE "rejected",
                            !.got = race.up]
    /\ UNCHANGED <<cache, config, clock, last, backups, persisted>>

\* .on('error'): reject(e)
FetchError ==
    /\ race.t = "fetch" /\ race.pc = "waiting" /\ race.up.t = "error"
    /\ race' = [race EXCEPT !.pc = "rejected"]
    /\ UNCHANGED <<cache, config, clock, last, backups, persisted>>

\* loadMcpRegistry resumed with what the promise settled to
FetchReturn ==
    /\ race.t = "fetch" /\ race.pc \in {"resolved", "rejected"}
    /\ \E saveOk \in SaveChoices(race.got) :
         cache' = loadMcpRegistry(cache, race.got, saveOk).file
    /\ race' = [race EXCEPT !.pc = "done"]
    /\ UNCHANGED <<config, clock, last, backups, persisted>>

FetchNext ==
    \/ FetchGet
    \/ FetchData
    \/ FetchEnd
    \/ FetchError
    \/ FetchReturn

FetchSpec == FetchInit /\ [][FetchNext]_vars

----------------------------------------------------------------------------
\* A request from its arrival to its response.  The handlers that load the
\* registry wait for the fetch; the event loop resumes a handler whose fetch
\* has settled and runs it to its end.

\* <<op, agentId, mcpId, envVars>> of the requests followed
LiveRequests ==
    { <<"catalog", "", "", Undef>>, <<"refresh", "", "", Undef>> }
    \cup { <<"install", a, "fs-mcp", EnvA>> : a \in AgentIds }
    \cup { <<"uninstall", a, "fs-mcp", Undef>> : a \in AgentIds }

\* race.pc: idle | received | fetching (the GET is out) | settled (the
\* promise of the fetch resolved or rejected, race.got) | responded |
\* escaped (the handler ended in an exception and sent nothing)
LiveInit ==
    /\ cache \in {MissingCache, ShippedCache}
    /\ config \in [AgentIds -> {GarbageFile, ObjectFile("map", ForeignServers),
                                MissingFile, ScalarFile}]
    /\ \A a \in DetectedAgents : config[a] \in DetectedFiles
    /\ \A a \in PersistedAgents : config[a] \in PersistedFiles
    /\ clock = 1
    /\ last = Idle
    /\ backups = NoBackups
    /\ persisted = PersistedFile
    /\ race = [t |-> "live", pc |-> "idle", req |-> <<"", "", "", Undef>>,
               got |-> [t |-> "error"]]

\* The request arrives
LiveReceive(r) ==
    /\ race.t = "live" /\ race.pc \in {"idle", "responded"} /\ last = Idle
    /\ race' = [race EXCEPT !.pc = "received", !.req = r,
                            !.got = [t |-> "error"]]
    /\ UNCHANGED <<cache, config, clock, last, backups, persisted>>

\* await fetchCatalogFromGitHub(): the GET is issued and the handler waits
LiveFetch ==
    /\ race.t = "live" /\ race.pc = "received" /\ race.req[1] # "uninstall"
    /\ race' = [race EXCEPT !.pc = "fetching"]
    /\ UNCHANGED <<cache, config, clock, last, backups, persisted>>

\* The fetch delivers a full response or reports an error
LiveSettle ==
    /\ race.t = "live" /\ race.pc = "fetching"
    /\ \E up \in UpstreamOutcomes :
         race' = [race EXCEPT !.pc = "settled", !.got = up]
    /\ UNCHANGED <<cache, config, clock, last, backups, persisted>>

\* What the handler of the request does once it runs
LiveOutcome(r, up, saveOk, t) ==
    IF r[1] = "catalog" THEN CatalogHandler(up, saveOk)
    ELSE IF r[1] = "refresh" THEN RefreshHandler(up, saveOk)
    ELSE IF r[1] = "install"
    THEN InstallHandler(r[2], r[3], r[4], up, saveOk, t[1], t[2], t[3])
    ELSE UninstallHandler(r[2], r[3], t[1], t[2], t[3])

\* The handler runs to its end: it answers, or an exception leaves it and
\* nothing is sent.
LiveRun ==
    /\ race.t = "live"
    /\ \/ race.pc = "settled"
       \/ race.pc = "received" /\ race.req[1] = "uninstall"
    /\ \E saveOk \in SaveChoices(race.got) :
       \E t \in WriteChoices(IF race.req[2] \in AgentIds
                             THEN config[race.req[2]] ELSE MissingFile,
                             race.req[1] \in {"install", "uninstall"}) :
         LET o == LiveOutcome(race.req, race.got, saveOk, t)
         IN  /\ cache' = o.cache
             /\ config' = IF race.req[2] \in AgentIds
                          THEN [config EXCEPT ![race.req[2]] = o.file]
                          ELSE config
             /\ IF o.resp.res = "uncaught"
                THEN /\ race' = [race EXCEPT !.pc = "escaped"]
                     /\ last' = last
                ELSE /\ race' = [race EXCEPT !.pc = "responded"]
                     /\ last' = o.resp
    /\ UNCHANGED <<clock, backups, persisted>>

LiveNext ==
    \/ \E r \in LiveRequests : LiveReceive(r)
    \/ LiveFetch
    \/ LiveSettle
    \/ LiveRun
    \/ Deliver

\* The event loop runs every callback that is ready, and every fetch settles.
LiveSpec ==
    /\ LiveInit /\ [][LiveNext]_vars
    /\ WF_vars(LiveFetch) /\ WF_vars(LiveSettle) /\ WF_vars(LiveRun)

----------------------------------------------------------------------------
\* Two install requests for two different plugins and one agent in flight
\* together

\* A second plugin that can be installed: fs-mcp's record under another id
GitRecord == [UpstreamRecord("fs-mcp") EXCEPT !.id = "git-mcp"]

PairCatalog == <<UpstreamRecord("fs-mcp"), GitRecord>>

\* The plugin each of the two requests names
PairPlugin == [r \in Installers |-> IF r = "first" THEN "fs-mcp" ELSE "git-mcp"]

\* What the GET of the upstream file can end in
PairOutcomes ==
    { [t |-> "error"],
      [t |-> "parsed", kind |-> "list", mcps |-> PairCatalog, extra |-> TRUE] }

PairRaceInit ==
    /\ cache \in {MissingCache, Registry("list", PairCatalog, TRUE)}
    /\ config \in [AgentIds -> DetectedFiles \cup PersistedFiles]
    /\ \A a \in DetectedAgents : config[a] \in DetectedFiles
    /\ \A a \in PersistedAgents : config[a] \in PersistedFiles
    /\ clock = 1
    /\ last = Idle
    /\ backups = NoBackups
    /\ persisted = PersistedFile
    /\ \E a \in AgentIds :
         race = [t |-> "pair", agent |-> a,
                 pc |-> [r \in Installers |-> "start"],
                 registry |-> [r \in Installers |-> Registry("list", <<>>, FALSE)],
                 resp |-> [r \in Installers |-> Idle]]

\* await loadMcpRegistry() of request r
PairLoad(r) ==
    /\ race.t = "pair" /\ race.pc[r] = "start"
    /\ \E up \in PairOutcomes : \E saveOk \in SaveChoices(up) :
         LET loaded == loadMcpRegistry(cache, up, saveOk)
         IN  /\ cache' = loaded.file
             /\ race' = [race EXCEPT !.pc[r] = "loaded",
                                      !.registry[r] = loaded.registry]
    /\ UNCHANGED <<config, clock, last, backups, persisted>>

\* The handler of r resumed with its registry: the rest of POST /api/install
PairFinish(r) ==
    /\ race.t = "pair" /\ race.pc[r] = "loaded"
    /\ LET registry == race.registry[r]
           checks == InstallChecks(race.agent, PairPlugin[r], EnvA, registry)
           req == Reply("install", race.agent, PairPlugin[r], EnvA, "")
       IN  IF checks.res # "continue"
           THEN /\ race' = [race EXCEPT !.pc[r] = "done",
                                !.resp[r] = [req EXCEPT !.res = checks.res,
                                                      !.missing = checks.missing]]
                /\ UNCHANGED <<cache, config>>
           ELSE \E t \in WriteChoices(config[race.agent], TRUE) :
                  LET o == InstallMutation(race.agent, PairPlugin[r], EnvA,
                                           registry.mcps[checks.i], cache,
                                           t[1], t[2], t[3])
                  IN  /\ cache' = o.cache
                      /\ config' = [config EXCEPT ![race.agent] = o.file]
                      /\ race' = [race EXCEPT !.pc[r] = "done",
                                               !.resp[r] = o.resp]
    /\ UNCHANGED <<clock, last, backups, persisted>>

PairRaceNext ==
    \/ \E r \in Installers : PairLoad(r)
    \/ \E r \in Installers : PairFinish(r)

PairRaceSpec == PairRaceInit /\ [][PairRaceNext]_vars

----------------------------------------------------------------------------
\* POST /api/validate-env

\* What loadMcpRegistry() is to a caller that does not await it: a pending
\* promise, which has no mcps
PendingPromise == Registry("promise", <<>>, FALSE)

\* The handler: registry is the value of the call loadMcpRegistry()
ValidateEnvHandler(mcpId, envVars, registry) ==
    LET req == Reply("validate-env", "", mcpId, envVars, "")
    IN  IF mcpId = "" \/ envVars.t # "object"
        THEN [req EXCEPT !.res = "invalid_id"]
        ELSE IF registry.kind # "list" \/ FindThrows(registry.mcps, mcpId)
        THEN [req EXCEPT !.res = "error",
                         !.msg = "Cannot read properties of undefined (reading 'find')"]
        ELSE LET i == FindIndex(registry.mcps, mcpId)
             IN  IF i = 0 THEN [req EXCEPT !.res = "ok"]
                 ELSE [req EXCEPT !.res = "ok",
                                  !.missing = MissingEnv(registry.mcps[i], envVars)]

ValidateInit ==
    /\ cache \in LedgerFiles \cup {MarkedCache}
    /\ config = [a \in AgentIds |-> MissingFile]
    /\ clock = 1
    /\ last = Idle
    /\ race = NoRace
    /\ backups = NoBackups
    /\ persisted = PersistedFile

\* The request is answered with the promise in hand; the load it started
\* goes on by itself and saves what it fetched.
ValidateEnv(mcpId, envVars) ==
    /\ last = Idle
    /\ last' = ValidateEnvHandler(mcpId, envVars, PendingPromise)
    /\ \E up \in UpstreamOutcomes : \E saveOk \in SaveChoices(up) :
         cache' = IF mcpId = "" \/ envVars.t # "object" THEN cache
                  ELSE loadMcpRegistry(cache, up, saveOk).file
    /\ UNCHANGED <<config, clock, race, backups, persisted>>

ValidateNext ==
    \/ \E id \in PluginIds \cup {"nope", ""}, e \in EnvInputs : ValidateEnv(id, e)
    \/ Deliver

ValidateSpec == ValidateInit /\ [][ValidateNext]_vars

----------------------------------------------------------------------------
\* Vocabulary of the properties

Records(file) == IF file.kind = "list" THEN file.mcps ELSE <<>>

AgentsOf(mcp) ==
    IF mcp.installed_agents.t = "array" THEN mcp.installed_agents.v ELSE <<>>

\* <<installed, installed_agents, installation_date>> of a plugin in a cache
\* file; a plugin without a record counts as not installed.
Ledger(file, id) ==
    LET i == FindIndex(Records(file), id)
    IN  IF i = 0 THEN <<FALSE, <<>>, 0>>
        ELSE <<Records(file)[i].installed, AgentsOf(Records(file)[i]),
               Records(file)[i].installation_date>>

\* The file on disk has an mcpServers mapping with an entry for id.
HasEntry(file, id) ==
    file.shape = "object" /\ file.servers = "map" /\ id \in DOMAIN file.entries

Count(s, x) == Cardinality({i \in 1..Len(s) : s[i] = x})

\* Tokens joined by single spaces
RECURSIVE JoinSp(_)
JoinSp(tokens) ==
    IF Len(tokens) = 0 THEN <<>>
    ELSE IF Len(tokens) = 1 THEN tokens[1]
    ELSE tokens[1] \o <<" ">> \o JoinSp(Tail(tokens))

\* The required env keys of a plugin that envVars gives no value, an empty
\* value or only spaces.
RequiredBlank(id, envVars) ==
    LET env == UpstreamRecord(id).env
    IN  IF env.t # "object" THEN {}
        ELSE {k \in DOMAIN env.v :
                /\ env.v[k].required
                /\ \/ envVars.t # "object"
                   \/ k \notin DOMAIN envVars.v
                   \/ \A i \in 1..Len(envVars.v[k]) : envVars.v[k][i] = " "}

\* No record of the new file lists an agent the old file did not list for it.
NoNewMark(old, new) ==
    \A j \in 1..Len(Records(new)) : \A a \in AgentIds :
        Includes(AgentsOf(Records(new)[j]), a)
            => Includes(Ledger(old, Records(new)[j].id)[2], a)

----------------------------------------------------------------------------
\* Properties

\* C1: whenever a fetched catalog replaces the cache (getCatalog, the load
\* of an install that then fails, refreshCatalog, the timer), every plugin
\* id in both the old cache and the new one keeps its installed,
\* installed_agents and installation_date.
C1_RefreshCarriesForward ==
    [][ ( /\ cache' # cache
          /\ \/ last = Idle /\ last' = Idle
             \/ last'.op \in {"catalog", "refresh"}
             \/ last'.op = "install" /\ last'.res # "ok" )
        => \A i \in 1..Len(Records(cache)), j \in 1..Len(Records(cache')) :
             Records(cache)[i].id = Records(cache')[j].id
               => Ledger(cache', Records(cache)[i].id)
                    = Ledger(cache, Records(cache)[i].id) ]_vars

\* C2: after a successful install(a, p) the status of (a, p) is installed;
\* after a successful uninstall(a, p) it is not installed.
C2_InstallStatusRoundTrip ==
    /\ (last.op = "install" /\ last.res = "ok")
           => getInstallStatus(last.agent, last.plugin)
    /\ (last.op = "uninstall" /\ last.res = "ok")
           => ~getInstallStatus(last.agent, last.plugin)

\* C3: when install(a, p, envVars) answers success, the cache has p
\* installed with a exactly once in installed_agents, and a's config file
\* has mcpServers[p] = {command, args, env} made of p's command line and
\* the envVars sent.
C3_InstallPostcondition ==
    (last.op = "install" /\ last.res = "ok") =>
        /\ Ledger(cache, last.plugin)[1]
        /\ Count(Ledger(cache, last.plugin)[2], last.agent) = 1
        /\ HasEntry(config[last.agent], last.plugin)
        /\ LET e == config[last.agent].entries[last.plugin]
           IN  /\ JoinSp(<<e.command>> \o e.args)
                     = UpstreamRecord(last.plugin).command.v
               /\ e.env = EnvOrEmpty(last.env)

C5_UnknownIdNoSideEffects ==
    [][ ( /\ last'.op = "install"
          /\ last'.res # "uncaught"
          /\ last'.agent \notin detectAgents \/ last'.plugin = "nope" )
        => /\ last'.res = "invalid_id"
           /\ config' = config
           /\ cache' = cache ]_vars

\* C6: an install of a plugin whose command is null is rejected with the
\* error "No installation command available", not with the error of a
\* failed mutation.
C6_NullCommandDescriptiveError ==
    ( /\ last.op = "install"
      /\ last.plugin = "raw-mcp"
      /\ last.res \notin {"invalid_id", "missing_env", "uncaught"} )
    => /\ last.res = "error"
       /\ last.msg = "No installation command available"

\* C7: when the config write of an install or uninstall fails, the request is
\* answered with an error and the plugin's installed, installed_agents and
\* installation_date in the cache are what they were.
C7_WriteFailureLeavesLedger ==
    [][ ( /\ last'.op \in {"install", "uninstall"}
          /\ last'.msg = WriteError )
        => /\ last'.res = "error"
           /\ Ledger(cache', last'.plugin) = Ledger(cache, last'.plugin) ]_vars

\* C8: an uninstall(a, p) that finds no entry for p in a's config file is
\* answered not-found; the config file is neither written nor backed up and
\* the cache file is unchanged.
C8_UninstallAbsent ==
    [][ ( /\ last'.op = "uninstall"
          /\ last'.agent \in detectAgents
          /\ ~HasEntry(config[last'.agent], last'.plugin) )
        => /\ last'.res = "not_found"
           /\ config' = config
           /\ ~last'.wrote /\ ~last'.bak
           /\ cache' = cache ]_vars

\* C8 witness: not-found for an agent while the ledger has the plugin
\* installed for another agent.
C8_Witness ==
    /\ last.op = "uninstall" /\ last.res = "not_found"
    /\ Ledger(cache, last.plugin)[1]
    /\ ~Includes(Ledger(cache, last.plugin)[2], last.agent)

\* C9: an install that succeeds right after the same install (same agent,
\* plugin and envVars) succeeded leaves every config file as the first
\* left it.
C9_InstallTwice ==
    [][ ( /\ last.op = "install" /\ last.res = "ok"
          /\ last'.op = "install" /\ last'.res = "ok" /\ last'.again )
        => config' = config ]_vars

\* C9 witness: the second of two equal installs succeeded and the entry is
\* in the file.
C9_Witness ==
    /\ last.op = "install" /\ last.res = "ok" /\ last.again
    /\ HasEntry(config[last.agent], last.plugin)

\* C10: every record of the cache has installed true exactly when
\* installed_agents is non-empty, and an installation_date exactly when
\* installed is true.
C10_LedgerInvariant ==
    \A i \in 1..Len(Records(cache)) :
        LET mcp == Records(cache)[i]
        IN  /\ mcp.installed <=> (AgentsOf(mcp) # <<>>)
            /\ (mcp.installation_date # 0) <=> mcp.installed

\* C10 witness: an uninstall left the plugin installed for one other agent.
C10_Witness ==
    /\ last.op = "uninstall" /\ last.res = "ok"
    /\ Ledger(cache, last.plugin)[1]
    /\ Len(Ledger(cache, last.plugin)[2]) = 1

\* The cache file being what a call with a save that succeeds leaves
Saved(installed) ==
    cache' = updateMcpInstallationStatus(cache, last'.plugin, last'.agent,
                                         installed, clock, TRUE)

\* C11: a call that marks (plugin, agent) installed leaves the agent once in
\* installed_agents; the date is stamped with the current time when the
\* plugin was not installed and is kept when it was; and once the call has
\* been saved, the same call again, at any later time, changes nothing.
C11_MarkInstalledIdempotent ==
    [][ ( /\ last'.op = "markInstalled"
          /\ FindIndex(Records(cache), last'.plugin) # 0 /\ Saved(TRUE) )
        => LET before == Ledger(cache, last'.plugin)
               after == Ledger(cache', last'.plugin)
           IN  /\ Count(after[2], last'.agent) = 1
               /\ after[1]
               /\ after[3] = IF before[1] THEN before[3] ELSE clock
               /\ \A now \in clock..(MaxClock + 1) :
                      updateMcpInstallationStatus(cache', last'.plugin,
                          last'.agent, TRUE, now, TRUE) = cache' ]_vars

\* C11 witness: a second agent was added to a plugin installed at an
\* earlier time.
C11_Witness ==
    /\ last.op = "markInstalled"
    /\ Len(Ledger(cache, last.plugin)[2]) = 2
    /\ Ledger(cache, last.plugin)[3] < clock

\* C12: a call that marks (plugin, agent) uninstalled removes the agent from
\* installed_agents; when no agent is left installed is false and the date
\* is cleared, and while one is left installed and the date stay as they
\* were; the same call again changes nothing.
C12_MarkUninstalledIdempotent ==
    [][ ( /\ last'.op = "markUninstalled"
          /\ FindIndex(Records(cache), last'.plugin) # 0 /\ Saved(FALSE) )
        => LET before == Ledger(cache, last'.plugin)
               after == Ledger(cache', last'.plugin)
           IN  /\ ~Includes(after[2], last'.agent)
               /\ \A b \in AgentIds \ {last'.agent} :
                      Count(after[2], b) = Count(before[2], b)
               /\ after[2] = <<>> => ~after[1] /\ after[3] = 0
               /\ after[2] # <<>> => after[1] /\ after[3] = before[3]
               /\ \A now \in clock..(MaxClock + 1) :
                      updateMcpInstallationStatus(cache', last'.plugin,
                          last'.agent, FALSE, now, TRUE) = cache' ]_vars

\* C12 witness: one of two agents was removed and the plugin is still
\* installed.
C12_Witness ==
    /\ last.op = "markUninstalled"
    /\ Ledger(cache, last.plugin)[2] # <<>>
    /\ ~Includes(Ledger(cache, last.plugin)[2], last.agent)

\* C13: after a call for a plugin of the cache returned, the cache file
\* holds the registry with the call's change.
C13_MutationPersisted ==
    [][ ( /\ last'.op \in {"markInstalled", "markUninstalled"}
          /\ last'.res = "returned"
          /\ FindIndex(Records(cache), last'.plugin) # 0 )
        => Saved(last'.op = "markInstalled") ]_vars

C15_CatalogAlwaysList ==
    last.op = "catalog" => last.res = "ok"

\* C16: the chain of getCatalog and of install's catalog load writes the
\* cache file only with a fetched catalog that has records, and getCatalog
\* answers with no records only when the cache file had none either.
C16_EmptyRemoteFallsThrough ==
    [][ /\ ( last'.op \in {"catalog", "install"} /\ cache' # cache )
             => Records(cache') # <<>>
        /\ ( last'.op = "catalog" /\ last'.res = "ok" /\ last'.body = <<>> )
             => Records(cache) = <<>> ]_vars

\* C17: the catalog getCatalog answers with is the one in the cache file:
\* a fetched catalog is in the file when it is returned, and a failed fetch
\* is answered from the file.
C17_ReturnedCatalogIsCached ==
    ( last.op = "catalog" /\ last.res = "ok" )
        => last.body = Ids(Records(cache))

\* A cache file that is a fetched catalog, as it was received
IsFetched(file) ==
    \E up \in UpstreamOutcomes :
        /\ up.t = "parsed" /\ up.kind # "nomcps"
        /\ file = Registry(up.kind, up.mcps, up.extra)

\* C18: the refresh request and the timer write the cache file by the rule
\* of loadMcpRegistry, for every fetch and save outcome; they change the
\* file only into the catalog fetched, and a refresh that answers from the
\* local registry leaves the file as it was.
C18_RefreshSameRule ==
    [][ /\ \A up \in UpstreamOutcomes : \A saveOk \in BOOLEAN :
               RefreshFile(cache, up, saveOk)
                   = loadMcpRegistry(cache, up, saveOk).file
        /\ ( last'.op = "refresh" /\ last' # last )
             => /\ last'.res = "ok"
                /\ cache' # cache => IsFetched(cache')
                /\ last'.msg = "Using local registry (GitHub unavailable)"
                       => cache' = cache
        /\ ( last = Idle /\ last' = Idle /\ cache' # cache )
             => IsFetched(cache') ]_vars

\* C18 witness: a refresh whose fetch failed left a cache file that marks a
\* plugin installed.
C18_Witness ==
    /\ last.op = "refresh"
    /\ last.msg = "Using local registry (GitHub unavailable)"
    /\ \E i \in 1..Len(Records(cache)) : Records(cache)[i].installed

\* C19: when the refresh request and the timer callback have both finished,
\* the cache file is the upstream file if either of them saved it and the
\* file they started from otherwise, in whatever order they fetched and
\* wrote.
C19_RefreshRaceConverges ==
    ( race.t = "refresh" /\ \A p \in Refreshers : race.pc[p] = "done" )
        => cache = IF \E p \in Refreshers : race.wrote[p]
                   THEN Registry(race.up.kind, race.up.mcps, race.up.extra)
                   ELSE race.cache0

\* C19 witness: both finished, the timer saved the upstream file over a
\* cache that marked a plugin installed, and the request's fetch failed.
C19_Witness ==
    /\ race.t = "refresh" /\ \A p \in Refreshers : race.pc[p] = "done"
    /\ race.wrote["timer"] /\ race.got["request"].t = "error"
    /\ race.cache0 = MarkedCache /\ cache # race.cache0

\* C20: when two installs of one plugin for one agent, sent together with
\* different envVars, have both answered success, the agent's config file
\* has one entry for the plugin, that of the request that wrote last, and
\* the cache lists the agent once for the plugin.
C20_ConcurrentInstallLastWins ==
    ( /\ race.t = "install"
      /\ \A r \in Installers : race.pc[r] = "done" /\ race.resp[r].res = "ok" )
        => /\ HasEntry(config[race.agent], race.plugin)
           /\ race.order # <<>>
           /\ config[race.agent].entries[race.plugin].env
                  = RaceEnv[race.order[Len(race.order)]].v
           /\ Count(Ledger(cache, race.plugin)[2], race.agent) = 1

\* The tokens of a command line: its maximal runs of characters other than
\* the space, in order
RECURSIVE Words(_)
Words(s) ==
    IF s = <<>> THEN <<>>
    ELSE IF Head(s) = " " THEN Words(Tail(s))
    ELSE LET n == IF \E i \in 1..Len(s) : s[i] = " "
                  THEN (CHOOSE i \in 1..Len(s) :
                            s[i] = " " /\ \A k \in 1..(i - 1) : s[k] # " ") - 1
                  ELSE Len(s)
         IN  <<SubSeq(s, 1, n)>> \o Words(SubSeq(s, n + 1, Len(s)))

\* The empty object {}
EmptyObject == File("object", "absent", EmptyMap, FALSE)

\* C21: readJson never raises to its caller, and for a missing file and for
\* a file whose content does not parse it returns the empty object.
C21_ReadNeverRaises ==
    last.op = "readJson"
    => /\ ~last.out.threw
       /\ last.before.shape \in {"missing", "garbage"}
          => last.out.value = EmptyObject

\* C21 witness: a file that does not parse was read as the empty object.
C21_Witness ==
    /\ last.op = "readJson"
    /\ last.before.shape = "garbage"
    /\ last.out.value = EmptyObject

\* C22: a call that gets to write a file that exists copies the content the
\* file has to the backup named by the time of the write before it
\* overwrites the file, so that after the write that backup holds the
\* previous content; and the copy does not decide the write: the file is
\* overwritten exactly when writeFileSync succeeds, and a failed copy
\* leaves the backups as they were.
C22_BackupBeforeWrite ==
    [][ ( /\ last = Idle
          /\ \/ last'.op = "addServerToMcpConfig"
             \/ last'.op = "removeServerFromMcpConfig" /\ last'.out.removed
          /\ config[last'.agent].shape # "missing" )
        => /\ last'.out.wrote = last'.wrOk
           /\ last'.out.threw = ~last'.wrOk
           /\ last'.bakOk
              => /\ clock \in DOMAIN backups'[last'.agent]
                 /\ backups'[last'.agent][clock] = config[last'.agent]
           /\ ~last'.bakOk => backups' = backups ]_vars

\* C22 witness: an existing entry was replaced, the copy of that write
\* holds the previous content, and an earlier backup is still there.
C22_Witness ==
    /\ last.op = "addServerToMcpConfig"
    /\ last.out.wrote /\ last.bakOk
    /\ HasEntry(last.before, "fs-mcp")
    /\ config[last.agent] # last.before
    /\ clock = 2
    /\ DOMAIN backups[last.agent] = {1, 2}
    /\ backups[last.agent][2] = last.before

\* C23: every install and every uninstall that is answered with an error
\* (invalid id, missing env, not found, failed mutation) names the config
\* file path in its response.
C23_FailureNamesPath ==
    ( /\ last.op \in {"install", "uninstall"}
      /\ last.res \in {"invalid_id", "missing_env", "not_found", "error"} )
    => last.path

\* C24: no request ends with an exception leaving its handler: each is
\* answered with a result or an error response.
C24_NoExceptionEscapes ==
    last.op \in {"install", "uninstall", "status", "catalog", "refresh"}
    => last.res # "uncaught"

\* C25: ensureMcpServersInConfig returns, for every value readJson hands it
\* and for a named and an unnamed agent kind, a config whose mcpServers is a
\* mapping, and a mapping the config already had is returned as it was.
C25_EnsureSchemaGivesMapping ==
    last.op = "ensureMcpServersInConfig"
    => /\ last.out.value.servers = "map"
       /\ last.before.shape = "object" /\ last.before.servers = "map"
          => last.out.value = last.before

\* C26: after addServerToMcpConfig wrote a command line of at least one
\* token, the entry of the plugin is {command, args, env} with command the
\* first token and args the remaining tokens in order, none of them empty,
\* whatever entry the plugin had before.
C26_SetEntrySplitsOnWhitespace ==
    ( /\ last.op = "addServerToMcpConfig"
      /\ last.out.wrote
      /\ Words(last.cmd) # <<>>
      /\ HasEntry(config[last.agent], "fs-mcp") )
    => config[last.agent].entries["fs-mcp"] =
           [command |-> Head(Words(last.cmd)),
            args |-> Tail(Words(last.cmd)),
            env |-> EmptyMap]

\* C30: after addServerToMcpConfig wrote a command line of no token (the
\* empty string, or spaces only), the entry of the plugin has command "" and
\* no args.
C30_ZeroTokens ==
    ( /\ last.op = "addServerToMcpConfig"
      /\ last.out.wrote
      /\ Words(last.cmd) = <<>>
      /\ HasEntry(config[last.agent], "fs-mcp") )
    => /\ config[last.agent].entries["fs-mcp"].command = <<>>
       /\ config[last.agent].entries["fs-mcp"].args = <<>>

\* C27: with one malformed entry in the upstream file, getCatalog still
\* answers with the valid records, and an install of a valid plugin with
\* its env, for a known agent, still succeeds unless the config write fails.
C27_MalformedRecordTolerated ==
    /\ last.op = "catalog"
       => /\ last.res = "ok"
          /\ \A id \in PluginIds : Includes(last.body, id)
    /\ last.op = "install" /\ last.agent \in detectAgents
       => last.res = "ok" \/ last.msg = WriteError

\* C28: every listing carries every agent that was persisted at the start
\* and every agent an add-agent answered success for, under the id
\* returned, with the name and path given and type "persisted".
C28_AddedAgentStaysListed ==
    last.op = "agents"
    => /\ last.res = "ok" \/ race.promised = {}
       /\ race.promised \subseteq last.list

\* C29: the fetch follows cursors: when it has resolved with a body that
\* names a cursor to a further page, it has requested more than one page.
C29_FetchFollowsCursors ==
    ( /\ race.t = "fetch"
      /\ race.pc \in {"resolved", "done"}
      /\ race.got.t = "parsed"
      /\ race.next )
    => race.gets > 1

\* C31: every request that has arrived is in the end answered, given that
\* every fetch settles.
C31_RequestsComplete ==
    (race.t = "live" /\ race.pc = "received")
        ~> (race.t = "live" /\ race.pc = "responded")

\* C32: whenever every request so far has been answered, the ledger and the
\* config files agree: an agent is in installed_agents of a record of the
\* cache exactly when its config file has an mcpServers entry for the
\* record's id.
C32_LedgerMatchesConfigs ==
    last = Idle
    => \A i \in 1..Len(Records(cache)) : \A a \in AgentIds :
           Includes(AgentsOf(Records(cache)[i]), a)
               <=> HasEntry(config[a], Records(cache)[i].id)

\* C33: an install or uninstall of plugin p for agent a leaves the config
\* files of the other agents as they were and, in a's file, every
\* mcpServers entry other than p's and the other top-level keys.
C33_ConfigFrame ==
    [][ last'.op \in {"install", "uninstall"}
        => /\ \A b \in AgentIds \ {last'.agent} : config'[b] = config[b]
           /\ last'.agent \in AgentIds
              => LET old == config[last'.agent]
                     new == config'[last'.agent]
                 IN  /\ new.other = old.other
                     /\ \A k \in (DOMAIN old.entries \cup DOMAIN new.entries)
                                   \ {last'.plugin} :
                            /\ k \in DOMAIN old.entries
                            /\ k \in DOMAIN new.entries
                            /\ new.entries[k] = old.entries[k] ]_vars

\* C33 witness: an install wrote its entry into a file that has another
\* tool's entry and other top-level keys, and both are still there.
C33_Witness ==
    /\ last.op = "install" /\ last.res = "ok" /\ last.wrote
    /\ HasEntry(config[last.agent], last.plugin)
    /\ HasEntry(config[last.agent], "other-mcp")
    /\ config[last.agent].entries["other-mcp"] = ForeignEntry
    /\ config[last.agent].other

\* C34: whatever the agent's config file held before, an install that
\* answers success leaves a file that parses to an object whose mcpServers
\* is a mapping with the plugin's entry.
C34_InstallLeavesEntry ==
    [][ ( /\ last'.op = "install"
          /\ last'.res = "ok"
          /\ config[last'.agent] \in DetectedFiles \cup PersistedFiles )
        => LET new == config'[last'.agent]
           IN  /\ new.shape = "object"
               /\ new.servers = "map"
               /\ last'.plugin \in DOMAIN new.entries ]_vars

\* C35: when two installs of two different plugins for one agent, in flight
\* together, have both answered success, the agent's config file has the
\* entries of both plugins, in whatever order the two were resumed.
C35_ConcurrentInstallsBothKept ==
    ( /\ race.t = "pair"
      /\ \A r \in Installers : race.pc[r] = "done" /\ race.resp[r].res = "ok" )
    => \A r \in Installers : HasEntry(config[race.agent], PairPlugin[r])

\* C36: a call of updateMcpInstallationStatus for plugin p leaves in the
\* cache file every other record, the other fields of p's record, the order
\* of the records and the other top-level keys.
C36_LedgerFrame ==
    [][ ( /\ last'.op \in {"markInstalled", "markUninstalled"}
          /\ cache.kind = "list" )
        => /\ cache'.kind = "list"
           /\ cache'.extra = cache.extra
           /\ Len(cache'.mcps) = Len(cache.mcps)
           /\ \A i \in 1..Len(cache.mcps) :
                /\ cache'.mcps[i].id = cache.mcps[i].id
                /\ cache'.mcps[i].command = cache.mcps[i].command
                /\ cache'.mcps[i].env = cache.mcps[i].env
                /\ cache.mcps[i].id # last'.plugin
                   => cache'.mcps[i] = cache.mcps[i] ]_vars

\* C37: validate-env, given a plugin id and envVars, answers valid with an
\* empty list for a plugin that is unknown or declares no env, and for a
\* plugin with env it lists as missing exactly the required keys install
\* would reject for, valid being that the list is empty.
C37_ValidateAgreesWithInstall ==
    ( /\ last.op = "validate-env"
      /\ last.plugin # ""
      /\ last.env.t = "object" )
    => /\ last.res = "ok"
       /\ {last.missing[i].key : i \in 1..Len(last.missing)}
              = IF last.plugin \in PluginIds
                THEN RequiredBlank(last.plugin, last.env) ELSE {}

\* C38: a status request changes neither a config file nor the cache file,
\* and for a known agent it reports installed exactly when the agent's
\* config file has an mcpServers entry for the plugin.
C38_StatusReadsConfigOnly ==
    [][ last'.op = "status"
        => /\ config' = config
           /\ cache' = cache
           /\ last'.agent \in detectAgents
              => /\ last'.res \in {"installed", "not_installed"}
                 /\ last'.res = "installed"
                    <=> HasEntry(config[last'.agent], last'.plugin) ]_vars

\* C38 witness: installed was reported from the config file while the
\* ledger does not list the agent for the plugin.
C38_Witness ==
    /\ last.op = "status"
    /\ last.res = "installed"
    /\ HasEntry(config[last.agent], last.plugin)
    /\ ~Includes(Ledger(cache, last.plugin)[2], last.agent)

\* C39: no backup is ever overwritten: a write that found the file and
\* made its copy leaves every backup made before it as it was, and its
\* own backup holds the content the file had just before the write.
C39_BackupsNeverOverwritten ==
    [][ ( /\ last = Idle
          /\ \/ last'.op = "addServerToMcpConfig"
             \/ last'.op = "removeServerFromMcpConfig" /\ last'.out.removed
          /\ config[last'.agent].shape # "missing"
          /\ last'.bakOk )
        => /\ \A t \in DOMAIN backups[last'.agent] :
                /\ t \in DOMAIN backups'[last'.agent]
                /\ backups'[last'.agent][t] = backups[last'.agent][t]
           /\ \E t \in DOMAIN backups'[last'.agent] :
                /\ t \notin DOMAIN backups[last'.agent]
                /\ backups'[last'.agent][t] = config[last'.agent] ]_vars

====
